---- MODULE Spec2Model ----
(***************************************************************************)
(* DocumentationChunker (utils/chunker.ts) of XORNG/knowledge-documentation *)
(* as a state machine: one call of chunkDocument on one document, with the  *)
(* recursive splitter and the hard-split loop run step by step on an        *)
(* explicit call stack; and GitDocumentationSource                          *)
(* (sources/GitDocumentationSource.ts), whose connect runs step by step.    *)
(*                                                                         *)
(* Strings are sequences of one-character strings; every index and offset  *)
(* is 0-based, as in the TypeScript source.                                *)
(***************************************************************************)
EXTENDS Integers, Sequences, FiniteSets, TLC

\* ------------------------------------------------------------------ bounds

\* longest text enumerated exhaustively over Alphabet
MaxLen == 5
\* largest chunkSize of the configurations explored (smallest is 2)
MaxChunkSize == 3

\* ------------------------------------------------------------- characters

NL == "\n"
SP == " "
TAB == "\t"
\* the backquote (this character cannot be written in a string literal here)
BT == "^"

\* String.prototype.trim strips these (the whitespace the model uses)
IsWs(c) == c \in {SP, NL, TAB}

\* the regular expression class \w
WordChars ==
  {"a","b","c","d","e","f","g","h","i","j","k","l","m","n","o","p","q","r",
   "s","t","u","v","w","x","y","z","0","1","2","3","4","5","6","7","8","9","_"}

IsWord(c) == c \in WordChars

\* ---------------------------------------------------- string primitives

MinOf(S) == CHOOSE x \in S : \A y \in S : x <= y
MaxOf(S) == CHOOSE x \in S : \A y \in S : x >= y

\* Op applied to the value of v, with v computed once (a `const x = v`)
Const(v, Op(_)) == CHOOSE r \in {Op(x) : x \in {v}} : TRUE

\* String.prototype.slice(a, b)
Slice(s, a, b) ==
  LET n == Len(s)
      from == IF a < 0 THEN (IF n + a < 0 THEN 0 ELSE n + a) ELSE (IF a > n THEN n ELSE a)
      to == IF b < 0 THEN (IF n + b < 0 THEN 0 ELSE n + b) ELSE (IF b > n THEN n ELSE b)
  IN IF from >= to THEN << >> ELSE SubSeq(s, from + 1, to)

\* String.prototype.slice(a)
SliceFrom(s, a) == Slice(s, a, Len(s))

\* pat occurs in s at 0-based position i
OccursAt(s, pat, i) ==
  /\ i >= 0
  /\ i + Len(pat) <= Len(s)
  /\ SubSeq(s, i + 1, i + Len(pat)) = pat

\* String.prototype.indexOf(pat, from)
IndexOf(s, pat, from) ==
  LET lo == IF from < 0 THEN 0 ELSE from
      hits == {i \in lo..Len(s) : OccursAt(s, pat, i)}
  IN IF hits = {} THEN -1 ELSE MinOf(hits)

\* String.prototype.lastIndexOf(pat, from)
LastIndexOf(s, pat, from) ==
  LET hi == IF from > Len(s) THEN Len(s) ELSE from
      hits == {i \in 0..hi : OccursAt(s, pat, i)}
  IN IF hits = {} THEN -1 ELSE MaxOf(hits)

\* String.prototype.trim()
Trim(s) ==
  LET keep == {i \in 1..Len(s) : ~IsWs(s[i])}
  IN IF keep = {} THEN << >> ELSE SubSeq(s, MinOf(keep), MaxOf(keep))

\* String.prototype.split(sep), sep non-empty
RECURSIVE Split(_, _)
Split(s, sep) ==
  LET k == IndexOf(s, sep, 0)
  IN IF k = -1 THEN << s >>
     ELSE << Slice(s, 0, k) >>
          \o Const(SliceFrom(s, k + Len(sep)), LAMBDA rest : Split(rest, sep))

\* Array.prototype.join(sep)
RECURSIVE Join(_, _)
Join(parts, sep) ==
  IF parts = << >> THEN << >>
  ELSE IF Len(parts) = 1 THEN parts[1]
  ELSE parts[1] \o sep \o Join(Tail(parts), sep)

\* Array.prototype.slice(-n)
LastN(q, n) == IF Len(q) <= n THEN q ELSE SubSeq(q, Len(q) - n + 1, Len(q))

IsPrefix(p, s) == Len(p) <= Len(s) /\ SubSeq(s, 1, Len(p)) = p
IsSuffix(p, s) == Len(p) <= Len(s) /\ SubSeq(s, Len(s) - Len(p) + 1, Len(s)) = p

\* -------------------------------------------------------------- separators

Separators ==
  << << NL, "#", "#", SP >>,
     << NL, "#", "#", "#", SP >>,
     << NL, "#", "#", "#", "#", SP >>,
     << NL, BT, BT, BT >>,
     << NL, NL >>,
     << NL >>,
     << ".", SP >>,
     << SP >> >>

\* ------------------------------------------------------------------ state

VARIABLES
  documentId,    \* chunkDocument's argument
  content,       \* chunkDocument's argument
  chunkSize,     \* this.chunkSize
  chunkOverlap,  \* this.chunkOverlap
  pc,            \* position in chunkDocument
  textParts,     \* extractCodeBlocks(content).textParts
  codeBlocks,    \* extractCodeBlocks(content).codeBlocks
  partIdx,       \* 1-based position of the loop over textParts
  blockIdx,      \* 1-based position of the loop over codeBlocks
  offset,        \* chunkDocument's local `offset`
  partChunks,    \* what recursiveSplit returned for the current text part
  chunks,        \* chunkDocument's local `chunks`, returned at the end
  segment,       \* history: for each chunk, the segment being processed when it was pushed
  stack,         \* activation records of recursiveSplit / hardSplit, innermost last
  returned,      \* history: the calls this chunker has completed, with their results
  localSource,   \* GitDocumentationSource.localSource: "null" or an object
  connected,     \* GitDocumentationSource.connected
  gitPc,         \* position in GitDocumentationSource.connect, "idle" between calls
  calls          \* history: the completed calls on the git source, with their results

vars ==
  << documentId, content, chunkSize, chunkOverlap, pc, textParts, codeBlocks,
     partIdx, blockIdx, offset, partChunks, chunks, segment, stack, returned,
     localSource, connected, gitPc, calls >>

\* ------------------------------------------------------------- getOverlap

\* a variant that takes the overlap from the head of the text
getOverlapHead(text) == Slice(text, 0, chunkOverlap)

\* a variant that does not look for a word boundary
getOverlapRaw(text) ==
  IF Len(text) <= chunkOverlap THEN text
  ELSE SliceFrom(text, Len(text) - chunkOverlap)

\* lines 193-207
getOverlap(text) ==
  IF Len(text) <= chunkOverlap THEN text
  ELSE LET overlapStart == Len(text) - chunkOverlap
           firstSpace == IndexOf(text, << SP >>, overlapStart)
       IN IF firstSpace > overlapStart /\ firstSpace < Len(text)
          THEN SliceFrom(text, firstSpace + 1)
          ELSE SliceFrom(text, overlapStart)

\* ------------------------------------------------------ extractCodeBlocks

Fence == << BT, BT, BT >>

\* first position at or after p that holds no \w character (Len(s) if none)
WordEnd(s, p) ==
  MinOf({q \in p..Len(s) : q = Len(s) \/ ~IsWord(s[q + 1])})

\* one attempt of /```(\w+)?\n([\s\S]*?)```/ at position p: the greedy \w+ takes
\* every word character (fewer leave a word character where \n is required), the
\* lazy body stops at the first closing marker
FenceAt(s, p) ==
  LET nl == WordEnd(s, p + 3)
      close == IndexOf(s, Fence, nl + 1)
  IN IF OccursAt(s, Fence, p) /\ OccursAt(s, << NL >>, nl) /\ close # -1
     THEN [ok |-> TRUE, index |-> p, lang |-> Slice(s, p + 3, nl),
           body |-> Slice(s, nl + 1, close), lastIndex |-> close + 3]
     ELSE [ok |-> FALSE]

\* regex.exec(content) with regex.lastIndex = from: the leftmost match
RegexExec(s, from) ==
  LET hits == {p \in from..Len(s) : FenceAt(s, p).ok}
  IN IF hits = {} THEN [ok |-> FALSE] ELSE FenceAt(s, MinOf(hits))

TextLanguage == << "t", "e", "x", "t" >>

\* a variant that pushes the text before the match without looking at its length
MatchSegmentsAlways(s, lastIndex, tps, cbs, match) ==
  [textParts |-> Append(tps, [text |-> Slice(s, lastIndex, match.index),
                              startOffset |-> lastIndex]),
   codeBlocks |-> Append(cbs,
                    [language |-> IF match.lang = << >> THEN TextLanguage ELSE match.lang,
                     code |-> Trim(match.body),
                     startOffset |-> match.index,
                     endOffset |-> match.lastIndex]),
   lastIndex |-> match.lastIndex]

\* lines 225-240: what one match adds to textParts and codeBlocks, and lastIndex
\* after it
MatchSegments(s, lastIndex, tps, cbs, match) ==
  [textParts |-> IF match.index > lastIndex
                 THEN Append(tps, [text |-> Slice(s, lastIndex, match.index),
                                   startOffset |-> lastIndex])
                 ELSE tps,
   codeBlocks |-> Append(cbs,
                    [language |-> IF match.lang = << >> THEN TextLanguage ELSE match.lang,
                     code |-> Trim(match.body),
                     startOffset |-> match.index,
                     endOffset |-> match.lastIndex]),
   lastIndex |-> match.lastIndex]

\* a variant that forgets the text after the last fence
RemainingTextDropped(s, lastIndex, tps) == tps

\* a variant that puts the text after the last fence in front of the others
RemainingTextFirst(s, lastIndex, tps) ==
  IF lastIndex < Len(s)
  THEN << [text |-> SliceFrom(s, lastIndex), startOffset |-> lastIndex] >> \o tps
  ELSE tps

\* lines 243-249: the text after the last fence
RemainingText(s, lastIndex, tps) ==
  IF lastIndex < Len(s)
  THEN Append(tps, [text |-> SliceFrom(s, lastIndex), startOffset |-> lastIndex])
  ELSE tps

\* lines 223-251; at holds lastIndex, textParts and codeBlocks
RECURSIVE ExtractLoop(_, _)
ExtractLoop(s, at) ==
  Const(RegexExec(s, at.lastIndex), LAMBDA match :
    IF match.ok
    THEN Const(MatchSegments(s, at.lastIndex, at.textParts, at.codeBlocks, match),
               LAMBDA found : ExtractLoop(s, found))
    ELSE [textParts |-> RemainingText(s, at.lastIndex, at.textParts),
          codeBlocks |-> at.codeBlocks])

extractCodeBlocks(s) ==
  ExtractLoop(s, [lastIndex |-> 0, textParts |-> << >>, codeBlocks |-> << >>])

\* --------------------------------------------------------- splitCodeBlock

\* a variant that starts the next chunk with no line of the flushed one
SplitCodeLineNoOverlap(at, line) ==
  LET flush == at.currentLength + Len(line) + 1 > chunkSize /\ Len(at.currentChunk) > 0
  IN [chunks |-> IF flush THEN Append(at.chunks, Join(at.currentChunk, << NL >>))
                 ELSE at.chunks,
      currentChunk |-> Append(IF flush THEN << >> ELSE at.currentChunk, line),
      currentLength |-> (IF flush THEN 0 ELSE at.currentLength) + Len(line) + 1]

\* lines 264-273: one line of the loop; at holds chunks, currentChunk and
\* currentLength
SplitCodeLine(at, line) ==
  LET flush == at.currentLength + Len(line) + 1 > chunkSize /\ Len(at.currentChunk) > 0
      overlapLines == LastN(at.currentChunk, 3)
  IN [chunks |-> IF flush THEN Append(at.chunks, Join(at.currentChunk, << NL >>))
                 ELSE at.chunks,
      currentChunk |-> Append(IF flush THEN overlapLines ELSE at.currentChunk, line),
      currentLength |-> (IF flush THEN Len(Join(overlapLines, << NL >>))
                         ELSE at.currentLength) + Len(line) + 1]

\* lines 263-280, from the k-th line on
RECURSIVE SplitCodeLoop(_, _, _)
SplitCodeLoop(lines, k, at) ==
  IF k > Len(lines)
  THEN IF Len(at.currentChunk) > 0
       THEN Append(at.chunks, Join(at.currentChunk, << NL >>))
       ELSE at.chunks
  ELSE Const(SplitCodeLine(at, lines[k]), LAMBDA after : SplitCodeLoop(lines, k + 1, after))

splitCodeBlock(code) ==
  Const(Split(code, << NL >>), LAMBDA lines :
    SplitCodeLoop(lines, 1, [chunks |-> << >>, currentChunk |-> << >>, currentLength |-> 0]))

\* ------------------------------------------------- recursiveSplit, stepwise

Top == stack[Len(stack)]
Below == SubSeq(stack, 1, Len(stack) - 1)

\* activation record of recursiveSplit(text, separatorIndex) at its first line
RSFrame(text, separatorIndex) ==
  [fn |-> "recursiveSplit", at |-> "entry", text |-> text,
   separatorIndex |-> separatorIndex]

\* activation record of hardSplit(text) at the head of its loop
HSFrame(text) ==
  [fn |-> "hardSplit", at |-> "while", text |-> text, start |-> 0, end |-> 0,
   chunks |-> << >>]

\* a variant that pushes without the test
PushTrimmedAlways(out, currentChunk) == Append(out, Trim(currentChunk))

\* `if (currentChunk.trim()) chunks.push(currentChunk.trim())`
PushTrimmed(out, currentChunk) ==
  IF Trim(currentChunk) # << >> THEN Append(out, Trim(currentChunk)) ELSE out

\* a variant that does not put the separator back
WithoutSeparator(f) == f.parts[f.i + 1]

\* the part of the loop body every iteration computes first
WithSeparator(f) ==
  IF f.i > 0 THEN Separators[f.separatorIndex + 1] \o f.parts[f.i + 1]
  ELSE f.parts[f.i + 1]

Fits(f) == Len(f.currentChunk \o WithSeparator(f)) <= chunkSize

\* a call returns value: to chunkDocument (line 49) when it is the outermost
\* one, else to the recursiveSplit that made it at line 146, which runs
\* `chunks.push(...subChunks); currentChunk = ''` and goes to its next part
Return(value) ==
  IF Len(stack) = 1
  THEN /\ stack' = << >>
       /\ partChunks' = value
       /\ pc' = "emit"
  ELSE LET caller == stack[Len(stack) - 1]
       IN /\ stack' = Append(SubSeq(stack, 1, Len(stack) - 2),
                        [caller EXCEPT !.at = "loop",
                                       !.chunks = caller.chunks \o value,
                                       !.currentChunk = << >>,
                                       !.overlap = << >>,
                                       !.i = caller.i + 1])
          /\ partChunks' = partChunks
          /\ pc' = pc

InSplit(fn, at) == pc = "split" /\ stack # << >> /\ Top.fn = fn /\ Top.at = at

Frozen ==
  UNCHANGED << documentId, content, chunkSize, chunkOverlap, textParts, codeBlocks,
               partIdx, blockIdx, offset, chunks, segment, returned,
               localSource, connected, gitPc, calls >>

\* a variant that returns the text as it is
RSBaseUntrimmed ==
  /\ InSplit("recursiveSplit", "entry")
  /\ Len(Top.text) <= chunkSize
  /\ Return(IF Trim(Top.text) # << >> THEN << Top.text >> ELSE << >>)
  /\ Frozen

\* lines 113-115
RSBase ==
  /\ InSplit("recursiveSplit", "entry")
  /\ Len(Top.text) <= chunkSize
  /\ Return(IF Trim(Top.text) # << >> THEN << Trim(Top.text) >> ELSE << >>)
  /\ Frozen

\* lines 117-120: `return this.hardSplit(text)`, whose value is passed on as is
RSHardSplit ==
  /\ InSplit("recursiveSplit", "entry")
  /\ Len(Top.text) > chunkSize
  /\ Top.separatorIndex >= Len(Separators)
  /\ stack' = Append(Below, HSFrame(Top.text))
  /\ UNCHANGED << pc, partChunks >>
  /\ Frozen

\* lines 122-128: the separator does not occur; the value of the call with the
\* next separator is passed on as is
RSNextSeparator ==
  /\ InSplit("recursiveSplit", "entry")
  /\ Len(Top.text) > chunkSize
  /\ Top.separatorIndex < Len(Separators)
  /\ Len(Split(Top.text, Separators[Top.separatorIndex + 1])) = 1
  /\ stack' = Append(Below, RSFrame(Top.text, Top.separatorIndex + 1))
  /\ UNCHANGED << pc, partChunks >>
  /\ Frozen

\* lines 122-131: the separator occurs; enter the loop over the parts
RSBegin ==
  /\ InSplit("recursiveSplit", "entry")
  /\ Len(Top.text) > chunkSize
  /\ Top.separatorIndex < Len(Separators)
  /\ LET parts == Split(Top.text, Separators[Top.separatorIndex + 1])
     IN /\ Len(parts) > 1
        /\ stack' = Append(Below,
             [fn |-> "recursiveSplit", at |-> "loop", text |-> Top.text,
              separatorIndex |-> Top.separatorIndex, parts |-> parts, i |-> 0,
              currentChunk |-> << >>, overlap |-> << >>, chunks |-> << >>])
  /\ UNCHANGED << pc, partChunks >>
  /\ Frozen

\* lines 133-138: the part fits in the buffer
RSAppend ==
  /\ InSplit("recursiveSplit", "loop")
  /\ Top.i < Len(Top.parts)
  /\ Fits(Top)
  /\ stack' = Append(Below, [Top EXCEPT !.currentChunk = @ \o WithSeparator(Top),
                                        !.i = @ + 1])
  /\ UNCHANGED << pc, partChunks >>
  /\ Frozen

\* lines 139-142 and 149-153: flush the buffer, start the next one with overlap
RSFlush ==
  /\ InSplit("recursiveSplit", "loop")
  /\ Top.i < Len(Top.parts)
  /\ ~Fits(Top)
  /\ Len(WithSeparator(Top)) <= chunkSize
  /\ LET overlap == getOverlap(Top.currentChunk)
     IN stack' = Append(Below,
          [Top EXCEPT !.chunks = PushTrimmed(@, Top.currentChunk),
                      !.overlap = overlap,
                      !.currentChunk = overlap \o WithSeparator(Top),
                      !.i = @ + 1])
  /\ UNCHANGED << pc, partChunks >>
  /\ Frozen

\* lines 139-146: flush the buffer, split the oversized part with the next separator
RSRecurse ==
  /\ InSplit("recursiveSplit", "loop")
  /\ Top.i < Len(Top.parts)
  /\ ~Fits(Top)
  /\ Len(WithSeparator(Top)) > chunkSize
  /\ stack' = Append(Below, [Top EXCEPT !.at = "call",
                                        !.chunks = PushTrimmed(@, Top.currentChunk)])
               \o << RSFrame(WithSeparator(Top), Top.separatorIndex + 1) >>
  /\ UNCHANGED << pc, partChunks >>
  /\ Frozen

\* lines 157-161
RSFinish ==
  /\ InSplit("recursiveSplit", "loop")
  /\ Top.i >= Len(Top.parts)
  /\ Return(PushTrimmed(Top.chunks, Top.currentChunk))
  /\ Frozen

\* ------------------------------------------------------ hardSplit, stepwise

\* lines 171-182: one window. A loop whose start advances pushes at most
\* Len(text) chunks; the pushes of a loop that does not advance are not kept
\* beyond that number.
HSWindow ==
  /\ InSplit("hardSplit", "while")
  /\ Top.start < Len(Top.text)
  /\ LET reach == IF Top.start + chunkSize < Len(Top.text)
                  THEN Top.start + chunkSize ELSE Len(Top.text)
         lastSpace == LastIndexOf(Top.text, << SP >>, reach)
         end == IF reach < Len(Top.text) /\ lastSpace > Top.start THEN lastSpace ELSE reach
     IN stack' = Append(Below,
          [Top EXCEPT !.at = "advance", !.end = end,
                      !.chunks = IF Len(@) < Len(Top.text)
                                 THEN Append(@, Trim(Slice(Top.text, Top.start, end)))
                                 ELSE @])
  /\ UNCHANGED << pc, partChunks >>
  /\ Frozen

\* lines 183-184
HSAdvance ==
  /\ InSplit("hardSplit", "advance")
  /\ stack' = Append(Below,
       [Top EXCEPT !.at = "while",
                   !.start = IF Top.end - chunkOverlap < 0 THEN Top.end
                             ELSE Top.end - chunkOverlap])
  /\ UNCHANGED << pc, partChunks >>
  /\ Frozen

\* lines 171 and 187
HSReturn ==
  /\ InSplit("hardSplit", "while")
  /\ Top.start >= Len(Top.text)
  /\ Return(SelectSeq(Top.chunks, LAMBDA c : Len(c) > 0))
  /\ Frozen

\* ------------------------------------------------------------ chunkDocument

\* a variant that names every chunk alike
ChunkIdOneKind(kind, n) == documentId \o "-chunk-" \o ToString(n)

\* `${documentId}-chunk-${chunks.length}` and `${documentId}-code-${chunks.length}`
ChunkId(kind, n) == documentId \o "-" \o kind \o "-" \o ToString(n)

\* lines 52-63
TextChunk(n, text, startOffset) ==
  [id |-> ChunkId("chunk", n),
   documentId |-> documentId,
   content |-> text,
   startOffset |-> startOffset,
   endOffset |-> startOffset + Len(text),
   metadata |-> [chunkType |-> "text", chunkIndex |-> n]]

\* a variant that ends a code chunk where its own content ends, as a text
\* chunk does
CodeChunkOwnLength(n, block, code) ==
  [id |-> ChunkId("code", n),
   documentId |-> documentId,
   content |-> Fence \o block.language \o << NL >> \o code \o << NL >> \o Fence,
   startOffset |-> block.startOffset,
   endOffset |-> block.startOffset + Len(code),
   metadata |-> [chunkType |-> "code", codeLanguage |-> block.language, chunkIndex |-> n]]

\* a variant that writes the opening marker without the language
CodeChunkNoLanguage(n, block, code) ==
  [id |-> ChunkId("code", n),
   documentId |-> documentId,
   content |-> Fence \o << NL >> \o code \o << NL >> \o Fence,
   startOffset |-> block.startOffset,
   endOffset |-> block.endOffset,
   metadata |-> [chunkType |-> "code", codeLanguage |-> block.language, chunkIndex |-> n]]

\* lines 74-86 and 90-102
CodeChunk(n, block, code) ==
  [id |-> ChunkId("code", n),
   documentId |-> documentId,
   content |-> Fence \o block.language \o << NL >> \o code \o << NL >> \o Fence,
   startOffset |-> block.startOffset,
   endOffset |-> block.endOffset,
   metadata |-> [chunkType |-> "code", codeLanguage |-> block.language, chunkIndex |-> n]]

\* total length of the first n strings of q
RECURSIVE TotalLength(_, _)
TotalLength(q, n) == IF n = 0 THEN 0 ELSE TotalLength(q, n - 1) + Len(q[n])

\* lines 51-65: the loop over partChunks; off is `offset` when the loop starts,
\* and its k-th iteration finds `offset` advanced by the k - 1 chunks before it
PushText(out, off, rest, part) ==
  [chunks |-> out \o [k \in 1..Len(rest) |->
                 TextChunk(Len(out) + k - 1, rest[k],
                           part.startOffset + off + TotalLength(rest, k - 1))],
   offset |-> off + TotalLength(rest, Len(rest))]

\* lines 73-87: the loop over codeChunks
PushCode(out, rest, block) ==
  out \o [k \in 1..Len(rest) |-> CodeChunk(Len(out) + k - 1, block, rest[k])]

\* history: n more chunks came from segment seg
Grown(seg, n) == segment \o [k \in 1..n |-> seg]

TextSegment(part) ==
  [kind |-> "text", startOffset |-> part.startOffset,
   endOffset |-> part.startOffset + Len(part.text)]

CodeSegment(block) ==
  [kind |-> "code", startOffset |-> block.startOffset, endOffset |-> block.endOffset]

Config ==
  UNCHANGED << documentId, content, chunkSize, chunkOverlap, returned,
               localSource, connected, gitPc, calls >>

\* a variant that keeps a block whole up to chunkSize only
TooLongForChunkSize(block) == Len(block.code) > chunkSize

\* line 71: `block.code.length > this.chunkSize * 2`
TooLong(block) == Len(block.code) > chunkSize * 2

\* lines 42-45
ExtractCodeBlocks ==
  /\ pc = "start"
  /\ textParts' = extractCodeBlocks(content).textParts
  /\ codeBlocks' = extractCodeBlocks(content).codeBlocks
  /\ pc' = "loop"
  /\ UNCHANGED << partIdx, blockIdx, offset, partChunks, chunks, segment, stack >>
  /\ Config

\* lines 48-49
CallRecursiveSplit ==
  /\ pc = "loop"
  /\ partIdx <= Len(textParts)
  /\ stack' = << RSFrame(textParts[partIdx].text, 0) >>
  /\ pc' = "split"
  /\ UNCHANGED << textParts, codeBlocks, partIdx, blockIdx, offset, partChunks,
                  chunks, segment >>
  /\ Config

\* lines 51-66
PushTextChunks ==
  /\ pc = "emit"
  /\ LET pushed == PushText(chunks, offset, partChunks, textParts[partIdx])
     IN /\ chunks' = pushed.chunks
        /\ offset' = pushed.offset
  /\ segment' = Grown(TextSegment(textParts[partIdx]), Len(partChunks))
  /\ partIdx' = partIdx + 1
  /\ pc' = "loop"
  /\ UNCHANGED << textParts, codeBlocks, blockIdx, partChunks, stack >>
  /\ Config

\* lines 69-87
PushSplitCode ==
  /\ pc = "loop"
  /\ partIdx > Len(textParts)
  /\ blockIdx <= Len(codeBlocks)
  /\ TooLong(codeBlocks[blockIdx])
  /\ LET codeChunks == splitCodeBlock(codeBlocks[blockIdx].code)
     IN /\ chunks' = PushCode(chunks, codeChunks, codeBlocks[blockIdx])
        /\ segment' = Grown(CodeSegment(codeBlocks[blockIdx]), Len(codeChunks))
  /\ blockIdx' = blockIdx + 1
  /\ UNCHANGED << pc, textParts, codeBlocks, partIdx, offset, partChunks, stack >>
  /\ Config

\* a variant that does not wait for the loop over textParts to end
PushWholeCodeEarly ==
  /\ pc = "loop"
  /\ blockIdx <= Len(codeBlocks)
  /\ ~(TooLong(codeBlocks[blockIdx]))
  /\ chunks' = Append(chunks,
       CodeChunk(Len(chunks), codeBlocks[blockIdx], codeBlocks[blockIdx].code))
  /\ segment' = Grown(CodeSegment(codeBlocks[blockIdx]), 1)
  /\ blockIdx' = blockIdx + 1
  /\ UNCHANGED << pc, textParts, codeBlocks, partIdx, offset, partChunks, stack >>
  /\ Config

\* lines 69-71 and 88-103
PushWholeCode ==
  /\ pc = "loop"
  /\ partIdx > Len(textParts)
  /\ blockIdx <= Len(codeBlocks)
  /\ ~(TooLong(codeBlocks[blockIdx]))
  /\ chunks' = Append(chunks,
       CodeChunk(Len(chunks), codeBlocks[blockIdx], codeBlocks[blockIdx].code))
  /\ segment' = Grown(CodeSegment(codeBlocks[blockIdx]), 1)
  /\ blockIdx' = blockIdx + 1
  /\ UNCHANGED << pc, textParts, codeBlocks, partIdx, offset, partChunks, stack >>
  /\ Config

\* line 106
ReturnChunks ==
  /\ pc = "loop"
  /\ partIdx > Len(textParts)
  /\ blockIdx > Len(codeBlocks)
  /\ pc' = "done"
  /\ UNCHANGED << textParts, codeBlocks, partIdx, blockIdx, offset, partChunks,
                  chunks, segment, stack >>
  /\ Config

\* most calls of chunkDocument on one chunker
MaxCalls == 3

DocumentIds == {"doc", "other"}

\* a variant that goes on from the offset of the call before
OffsetKept(last) == last

\* line 45: `let offset = 0`
OffsetAtEntry(last) == 0

\* lines 36-45: chunkDocument has returned and is called again on the same
\* chunker; its locals are new, this.chunkSize and this.chunkOverlap stay
CallAgain(documents) ==
  /\ pc = "done"
  /\ Len(returned) + 1 < MaxCalls
  /\ returned' = Append(returned,
       [documentId |-> documentId, content |-> content, chunks |-> chunks])
  /\ documentId' \in DocumentIds
  /\ content' \in documents
  /\ pc' = "start"
  /\ textParts' = << >>
  /\ codeBlocks' = << >>
  /\ partIdx' = 1
  /\ blockIdx' = 1
  /\ offset' = OffsetAtEntry(offset)
  /\ partChunks' = << >>
  /\ chunks' = << >>
  /\ segment' = << >>
  /\ stack' = << >>
  /\ UNCHANGED << chunkSize, chunkOverlap, localSource, connected, gitPc, calls >>

\* ---------------------------------------------------- GitDocumentationSource

\* most calls on one git source
MaxGitCalls == 4

\* part_000 lines 326-327 and BaseSource: the fields of a new source
Constructed ==
  /\ localSource = "null"
  /\ connected = FALSE
  /\ gitPc = "idle"
  /\ calls = << >>

\* the chunker takes no step
ChunkerIdle ==
  UNCHANGED << documentId, content, chunkSize, chunkOverlap, pc, textParts,
               codeBlocks, partIdx, blockIdx, offset, partChunks, chunks, segment,
               stack, returned >>

\* a call has ended with this result
Completed(op, result) == calls' = Append(calls, [op |-> op, result |-> result])

\* part_000 lines 342-355: connect is called; pathExists(localPath) chooses
\* between pull and clone
Connect ==
  /\ gitPc = "idle"
  /\ Len(calls) < MaxGitCalls
  /\ gitPc' \in {"pull", "clone"}
  /\ UNCHANGED << localSource, connected, calls >>
  /\ ChunkerIdle

\* part_000 lines 348-355 and 369-372: git pull or git clone ends; when it
\* fails the error is logged and thrown again
GitPullOrClone ==
  /\ gitPc \in {"pull", "clone"}
  /\ \/ /\ gitPc' = "create"
        /\ calls' = calls
     \/ /\ gitPc' = "idle"
        /\ Completed("connect", "error")
  /\ UNCHANGED << localSource, connected >>
  /\ ChunkerIdle

\* part_000 lines 357-364
CreateLocalSource ==
  /\ gitPc = "create"
  /\ localSource' = "LocalDocumentationSource"
  /\ gitPc' = "connectLocal"
  /\ UNCHANGED << connected, calls >>
  /\ ChunkerIdle

\* part_000 lines 365-372: localSource.connect(context) ends; it throws when
\* the path cannot be accessed (lines 25-34)
ConnectLocalSource ==
  /\ gitPc = "connectLocal"
  /\ \/ /\ connected' = TRUE
        /\ Completed("connect", "ok")
     \/ /\ connected' = connected
        /\ Completed("connect", "error")
  /\ gitPc' = "idle"
  /\ UNCHANGED localSource
  /\ ChunkerIdle

\* part_000 lines 375-381
Disconnect ==
  /\ gitPc = "idle"
  /\ Len(calls) < MaxGitCalls
  /\ localSource' = "null"
  /\ connected' = FALSE
  /\ Completed("disconnect", "ok")
  /\ UNCHANGED gitPc
  /\ ChunkerIdle

\* `if (!this.localSource)` of lines 384, 391 and 398
Guarded(refusal) == IF localSource = "null" THEN refusal ELSE "delegated"

\* part_000 lines 383-388
FetchDocuments ==
  /\ gitPc = "idle"
  /\ Len(calls) < MaxGitCalls
  /\ Completed("fetchDocuments", Guarded("Git source not connected"))
  /\ UNCHANGED << localSource, connected, gitPc >>
  /\ ChunkerIdle

\* part_000 lines 390-395
FetchDocument ==
  /\ gitPc = "idle"
  /\ Len(calls) < MaxGitCalls
  /\ Completed("fetchDocument", Guarded("Git source not connected"))
  /\ UNCHANGED << localSource, connected, gitPc >>
  /\ ChunkerIdle

\* part_000 lines 397-402
GetDocumentCount ==
  /\ gitPc = "idle"
  /\ Len(calls) < MaxGitCalls
  /\ Completed("getDocumentCount", Guarded("0"))
  /\ UNCHANGED << localSource, connected, gitPc >>
  /\ ChunkerIdle

\* ------------------------------------------------------------------ inputs

Alphabet == {"a", SP, NL}

\* every string over Alphabet of length 0..MaxLen
Texts == UNION {[1..n -> Alphabet] : n \in 0..MaxLen}

RECURSIVE Flatten(_)
Flatten(pieces) == IF pieces = << >> THEN << >> ELSE Head(pieces) \o Flatten(Tail(pieces))

\* most pieces a fenced document is put together from
MaxPieces == 3

\* a code body of MaxChunkSize + 1 one-letter lines: longer than 2 * chunkSize
BigBody == Join([k \in 1..(MaxChunkSize + 1) |-> << "a" >>], << NL >>)

Pieces ==
  { << "a" >>, << SP >>, << BT >>,
    Fence \o << NL >>,
    Fence \o << NL >> \o Fence,
    Fence \o << "j", "s", NL, SP, "a", SP, "a", NL >> \o Fence,
    Fence \o << NL >> \o BigBody \o Fence }

FencedDocuments == {Flatten(ps) : ps \in UNION {[1..n -> Pieces] : n \in 0..MaxPieces}}

\* n letters with no separator among them
Unbroken(n) == [k \in 1..n |-> "a"]

Samples ==
  {Unbroken(10 * size) : size \in 2..MaxChunkSize} \cup
  {Fence \o << NL >> \o Unbroken(size - 1) \o << NL >> \o Unbroken(size) \o << NL >> \o Fence :
     size \in 2..MaxChunkSize} \cup
  { << "a", NL, "#", "#", SP, "b", NL, "#", "#", "#", SP, "c", NL, "#", "#", "#", "#", SP, "d" >>,
    << "a", ".", SP, "b", ".", SP, "c" >>,
    << "a", "b", SP, "c", "d", SP, "e", "f" >>,
    << TAB, TAB, TAB, TAB, TAB >>,
    << "a", "a", NL, BT, BT, BT, "b", "b" >>,
    << "a", "a", SP, "b", "b", NL, NL, "c", "c", SP, "d", "d" >>,
    Fence \o << "j", "s", NL, "a", NL >> \o Fence,
    Fence \o << NL, "a", NL, "b", NL, "c", NL, "d", NL, "e", NL >> \o Fence }

Documents == Texts \cup FencedDocuments \cup Samples

\* chunkSize > 0 and 0 <= chunkOverlap < chunkSize
Configs == {cfg \in (2..MaxChunkSize) \X (0..MaxChunkSize) : cfg[2] < cfg[1]}

\* the documents of the runs checked for termination
TerminationDocuments ==
  Samples \cup
  { << "a", SP, "a", "a" >>,
    << SP, NL, SP >>,
    << "a" >> \o Fence \o << NL >> \o BigBody \o Fence \o << SP >>,
    Fence \o << "j", "s", NL, SP, "a", SP, "a", NL >> \o Fence \o << "a", "a", SP, "a" >> }

\* the documents of the runs with several calls
RepeatDocuments ==
  { << "a" >> \o Fence \o << NL >> \o BigBody \o Fence \o << SP >>,
    Fence \o << "j", "s", NL, SP, "a", SP, "a", NL >> \o Fence \o << "a", "a", SP, "a" >>,
    << "a", "a", "a", "a", NL, NL, "a", SP, "a" >> }

\* chunkers and documents of their own sizes: two paragraphs that fit in
\* chunkSize one by one, and words whose overlap starts after or at a space
Examples ==
  { [content |-> << "p", "a", "r", "a", SP, "o", "n", "e", ".", NL, NL,
                    "p", "a", "r", "a", SP, "t", "w", "o", "." >>,
     chunkSize |-> 11, chunkOverlap |-> 0] } \cup
  { [content |-> << "a", "b", SP, "c", "d", SP, "e", "f", SP, "g", "h" >>,
     chunkSize |-> 6, chunkOverlap |-> overlap] : overlap \in 3..4 }

\* the state when chunkDocument(documentId, content, metadata) is entered
Called(document, size, overlap) ==
  /\ documentId = "doc"
  /\ content = document
  /\ chunkSize = size
  /\ chunkOverlap = overlap
  /\ pc = "start"
  /\ textParts = << >>
  /\ codeBlocks = << >>
  /\ partIdx = 1
  /\ blockIdx = 1
  /\ offset = 0
  /\ partChunks = << >>
  /\ chunks = << >>
  /\ segment = << >>
  /\ stack = << >>
  /\ returned = << >>
  /\ Constructed

Entered(documents) ==
  \E document \in documents, cfg \in Configs : Called(document, cfg[1], cfg[2])

Init ==
  \/ Entered(Documents)
  \/ \E ex \in Examples : Called(ex.content, ex.chunkSize, ex.chunkOverlap)

Next ==
  \/ ExtractCodeBlocks
  \/ CallRecursiveSplit
  \/ RSBase
  \/ RSHardSplit
  \/ RSNextSeparator
  \/ RSBegin
  \/ RSAppend
  \/ RSFlush
  \/ RSRecurse
  \/ RSFinish
  \/ HSWindow
  \/ HSAdvance
  \/ HSReturn
  \/ PushTextChunks
  \/ PushSplitCode
  \/ PushWholeCode
  \/ ReturnChunks

Spec == Init /\ [][Next]_vars

CallAgainRepeated == CallAgain(RepeatDocuments)

RepeatNext == Next \/ CallAgainRepeated

\* one chunker, called up to MaxCalls times
RepeatSpec == Entered(RepeatDocuments) /\ [][RepeatNext]_vars

GitNext ==
  \/ Connect
  \/ GitPullOrClone
  \/ CreateLocalSource
  \/ ConnectLocalSource
  \/ Disconnect
  \/ FetchDocuments
  \/ FetchDocument
  \/ GetDocumentCount

\* one git source, called up to MaxGitCalls times, beside a chunker with the
\* sizes of lines 28-31 of part_001 that is not running
GitSpec == Called(<< >>, 1000, 200) /\ [][GitNext]_vars

\* the call is not suspended: a step that can be taken is taken
FairSpec == Entered(TerminationDocuments) /\ [][Next]_vars /\ WF_vars(Next)

\* ------------------------------------------------------------------ claims

\* C1: for every text and every configuration with chunkSize > 0 and
\* 0 <= chunkOverlap < chunkSize, recursiveSplit and so chunkDocument
\* terminate, also on an unbroken string routed to hardSplit.
C1_Terminates == <>(pc = "done")

\* no separator of the priority list occurs in t
SeparatorFree(t) == \A k \in 1..Len(Separators) : IndexOf(t, Separators[k], 0) = -1

\* text holds a separator-free token longer than chunkSize
HasLongToken(text) ==
  \E a \in 0..Len(text) : \E b \in a..Len(text) :
    b - a > chunkSize /\ SeparatorFree(Slice(text, a, b))

\* C2: every chunk recursiveSplit returns has length <= chunkSize, unless the
\* text holds a single separator-free token longer than chunkSize.
C2_ChunksWithinChunkSize ==
  pc = "emit" =>
    \/ HasLongToken(textParts[partIdx].text)
    \/ \A k \in 1..Len(partChunks) : Len(partChunks[k]) <= chunkSize

\* C3: every chunk has 0 <= startOffset <= endOffset <= length(content), and a
\* text chunk's range lies inside the text segment it was split from.
C3_OffsetsInDocument ==
  \A k \in 1..Len(chunks) :
    /\ 0 <= chunks[k].startOffset
    /\ chunks[k].startOffset <= chunks[k].endOffset
    /\ chunks[k].endOffset <= Len(content)
    /\ chunks[k].metadata.chunkType = "text" =>
         /\ segment[k].startOffset <= chunks[k].startOffset
         /\ chunks[k].endOffset <= segment[k].endOffset

\* extractCodeBlocks has just returned to line 42
Extracted == pc = "loop" /\ partIdx = 1 /\ blockIdx = 1

TextPartsAt(p) ==
  {k \in 1..Len(textParts) :
     textParts[k].startOffset <= p /\ p < textParts[k].startOffset + Len(textParts[k].text)}

CodeBlocksAt(p) ==
  {k \in 1..Len(codeBlocks) : codeBlocks[k].startOffset <= p /\ p < codeBlocks[k].endOffset}

\* C4: the ranges of the text segments and of the code segments that
\* extractCodeBlocks returns are pairwise disjoint and cover [0, length(content))
\* exactly: every character position lies in exactly one segment, and no
\* segment reaches outside the document.
C4_SegmentsPartition ==
  Extracted =>
    /\ \A p \in 0..(Len(content) - 1) :
         Cardinality(TextPartsAt(p)) + Cardinality(CodeBlocksAt(p)) = 1
    /\ \A k \in 1..Len(textParts) :
         /\ 0 <= textParts[k].startOffset
         /\ textParts[k].startOffset + Len(textParts[k].text) <= Len(content)
    /\ \A k \in 1..Len(codeBlocks) :
         /\ 0 <= codeBlocks[k].startOffset
         /\ codeBlocks[k].startOffset < codeBlocks[k].endOffset
         /\ codeBlocks[k].endOffset <= Len(content)

\* C4 witness: text, a fence, text again, all extracted
C4_Witness ==
  /\ pc # "start"
  /\ Len(textParts) >= 2
  /\ Len(codeBlocks) >= 1
  /\ textParts[1].startOffset < codeBlocks[1].startOffset
  /\ codeBlocks[1].endOffset <= textParts[2].startOffset

\* C5 as stated: for chunks at output positions i < j, the source of chunk i
\* does not start after the source of chunk j in the document.
C5_DocumentOrder ==
  \A i \in 1..Len(chunks) : \A j \in 1..Len(chunks) :
    i < j => segment[i].startOffset <= segment[j].startOffset

\* C5, amended: for chunks of the same chunkType at output positions i < j, the
\* source of chunk i does not start after the source of chunk j in the document.
C5_OrderWithinType ==
  \A i \in 1..Len(chunks) : \A j \in 1..Len(chunks) :
    (i < j /\ chunks[i].metadata.chunkType = chunks[j].metadata.chunkType)
      => segment[i].startOffset <= segment[j].startOffset

\* C5 witness: text, a fence, text: two text chunks of different segments and
\* a code chunk whose fence lies between them
C5_Witness ==
  /\ pc = "done"
  /\ \E i \in 1..Len(chunks) : \E j \in 1..Len(chunks) : \E c \in 1..Len(chunks) :
       /\ i < j
       /\ chunks[i].metadata.chunkType = "text"
       /\ chunks[j].metadata.chunkType = "text"
       /\ chunks[c].metadata.chunkType = "code"
       /\ segment[i].startOffset < segment[c].startOffset
       /\ segment[c].startOffset < segment[j].startOffset

\* C6: every text chunk precedes every code chunk; text chunks come in the
\* order of their text segments and code chunks in the order of their fences.
C6_TextBeforeCode ==
  \A i \in 1..Len(chunks) : \A j \in 1..Len(chunks) :
    i < j =>
      /\ chunks[i].metadata.chunkType = "code" => chunks[j].metadata.chunkType = "code"
      /\ segment[i].kind = chunks[i].metadata.chunkType
      /\ segment[j].kind = chunks[j].metadata.chunkType
      /\ segment[i].kind = segment[j].kind => segment[i].startOffset <= segment[j].startOffset

\* C6 witness: a fence comes before text in the document, and its code chunk
\* after the text chunk in the output
C6_Witness ==
  /\ pc = "done"
  /\ \E i \in 1..Len(chunks) : \E j \in 1..Len(chunks) :
       /\ i < j
       /\ chunks[i].metadata.chunkType = "text"
       /\ chunks[j].metadata.chunkType = "code"
       /\ segment[j].endOffset <= segment[i].startOffset

\* C7: no chunk that recursiveSplit or hardSplit returns, and no chunk that
\* chunkDocument emits, is empty after trimming surrounding whitespace.
C7_NoEmptyChunk ==
  /\ \A k \in 1..Len(partChunks) : Trim(partChunks[k]) # << >>
  /\ \A k \in 1..Len(chunks) : Trim(chunks[k].content) # << >>

\* C7 witness: a whitespace-only text segment and a fence with an empty body
\* have both been processed
C7_Witness ==
  /\ pc = "done"
  /\ \E k \in 1..Len(textParts) : Trim(textParts[k].text) = << >>
  /\ \E k \in 1..Len(chunks) :
       /\ chunks[k].metadata.chunkType = "code"
       /\ \E b \in 1..Len(codeBlocks) :
            /\ codeBlocks[b].code = << >>
            /\ codeBlocks[b].startOffset = chunks[k].startOffset

\* the next step of recursiveSplit flushes the buffer as a chunk and starts the
\* next buffer with overlap (lines 139-142 and 149-153)
FlushesChunk ==
  /\ InSplit("recursiveSplit", "loop")
  /\ Top.i < Len(Top.parts)
  /\ ~Fits(Top)
  /\ Len(WithSeparator(Top)) <= chunkSize
  /\ Trim(Top.currentChunk) # << >>

\* C8 as stated: when recursiveSplit flushes a buffer as a chunk and starts
\* the next buffer with overlap, the overlap is a suffix of the chunk just
\* emitted and so is text of both adjacent chunks.
C8_OverlapSuffixOfChunk ==
  [][FlushesChunk =>
       LET after == stack'[Len(stack')]
       IN IsSuffix(after.overlap, after.chunks[Len(after.chunks)])]_vars

\* C8, amended: the overlap is a suffix of the flushed buffer and the prefix of
\* the next buffer; trimmed of surrounding whitespace it is a suffix of the
\* chunk just emitted and a prefix of what the next buffer is emitted as.
C8_TrimmedOverlapShared ==
  [][/\ FlushesChunk =>
          LET after == stack'[Len(stack')]
          IN /\ IsSuffix(after.overlap, Top.currentChunk)
             /\ IsPrefix(after.overlap, after.currentChunk)
             /\ IsSuffix(Trim(after.overlap), after.chunks[Len(after.chunks)])
     /\ InSplit("recursiveSplit", "loop") =>
          IsPrefix(Trim(Top.overlap), Trim(Top.currentChunk))]_vars

\* C8 witness: a buffer started with an overlap that is not blank, after a
\* chunk was emitted
C8_Witness ==
  /\ InSplit("recursiveSplit", "loop")
  /\ Trim(Top.overlap) # << >>
  /\ Top.chunks # << >>
  /\ IsPrefix(Top.overlap, Top.currentChunk)

\* C9: the chunk at output position n (0-based) has chunkIndex n and id
\* <documentId>-chunk-<n> (text) or <documentId>-code-<n> (code); the ids of one
\* document are pairwise distinct.
C9_IndexAndId ==
  /\ \A k \in 1..Len(chunks) :
       /\ chunks[k].metadata.chunkIndex = k - 1
       /\ chunks[k].metadata.chunkType = "text"
            => chunks[k].id = documentId \o "-chunk-" \o ToString(k - 1)
       /\ chunks[k].metadata.chunkType = "code"
            => chunks[k].id = documentId \o "-code-" \o ToString(k - 1)
  /\ \A i \in 1..Len(chunks) : \A j \in 1..Len(chunks) :
       i # j => chunks[i].id # chunks[j].id

\* C9 witness: text chunks and code chunks in one output
C9_Witness ==
  /\ pc = "done"
  /\ Len(chunks) >= 3
  /\ chunks[1].metadata.chunkType = "text"
  /\ chunks[Len(chunks)].metadata.chunkType = "code"
  /\ chunks[Len(chunks)].id = "doc-code-" \o ToString(Len(chunks) - 1)

\* C10 as stated: for a text of length <= chunkSize recursiveSplit returns
\* exactly one chunk, the trimmed text.
C10_OneChunkWhenFits ==
  (pc = "emit" /\ Len(textParts[partIdx].text) <= chunkSize)
    => partChunks = << Trim(textParts[partIdx].text) >>

\* C10, amended: for a text of length <= chunkSize recursiveSplit returns
\* exactly one chunk, the trimmed text, when the text is not blank, and no
\* chunk when it is only whitespace.
C10_OneChunkUnlessBlank ==
  (pc = "emit" /\ Len(textParts[partIdx].text) <= chunkSize)
    => partChunks = IF Trim(textParts[partIdx].text) = << >> THEN << >>
                    ELSE << Trim(textParts[partIdx].text) >>

\* C10 witness: a text that fits was returned trimmed
C10_Witness ==
  /\ pc = "emit"
  /\ Len(textParts[partIdx].text) <= chunkSize
  /\ Len(partChunks) = 1
  /\ partChunks[1] # textParts[partIdx].text

\* the language tags of the fences of the documents
FenceTags == {<< >>, << "j", "s" >>}

\* what stands between the opening line with this tag and the last three
\* characters of the document
BodyAfter(tag) == Slice(content, Len(tag) + 4, Len(content) - 3)

\* the document is one fence with this tag and nothing else
OnlyFence(tag) ==
  /\ Len(content) >= Len(tag) + 7
  /\ content = Fence \o tag \o << NL >> \o BodyAfter(tag) \o Fence
  /\ IndexOf(BodyAfter(tag) \o Fence, Fence, 0) = Len(BodyAfter(tag))

\* C11 as stated: a document that is one fence whose body is no longer than
\* 2 * chunkSize gives exactly one chunk, a code chunk, whose content is the
\* document character for character.
C11_FenceReproduced ==
  \A tag \in FenceTags :
    (pc = "done" /\ OnlyFence(tag) /\ Len(BodyAfter(tag)) <= 2 * chunkSize)
      => /\ Len(chunks) = 1
         /\ chunks[1].metadata.chunkType = "code"
         /\ chunks[1].content = content

\* C11: a document that is one fence whose body is no longer than
\* 2 * chunkSize gives exactly one chunk, a code chunk; its content is the
\* opening marker, the tag ("text" when the fence has none), a newline, the
\* trimmed body, a newline and the closing marker, which is the document
\* itself exactly when the fence has a tag and its body is trimmed but for
\* one final newline.
C11_FenceNormalised ==
  \A tag \in FenceTags :
    (pc = "done" /\ OnlyFence(tag) /\ Len(BodyAfter(tag)) <= 2 * chunkSize)
      => /\ Len(chunks) = 1
         /\ chunks[1].metadata.chunkType = "code"
         /\ chunks[1].content =
              Fence \o (IF tag = << >> THEN TextLanguage ELSE tag) \o << NL >>
                \o Trim(BodyAfter(tag)) \o << NL >> \o Fence
         /\ chunks[1].content = content
              <=> (tag # << >> /\ BodyAfter(tag) = Trim(BodyAfter(tag)) \o << NL >>)

C11_Witness ==
  /\ pc = "done"
  /\ \E tag \in FenceTags : OnlyFence(tag) /\ Len(BodyAfter(tag)) <= 2 * chunkSize
  /\ Len(chunks) = 1
  /\ chunks[1].content = content

\* the code a code chunk was built from: its content without the opening line
\* and without the newline and closing marker at its end
SubChunk(chunk) ==
  Slice(chunk.content, Len(chunk.metadata.codeLanguage) + 4, Len(chunk.content) - 4)

\* the code block a code chunk was built from
BlockOf(chunk) ==
  codeBlocks[CHOOSE b \in 1..Len(codeBlocks) :
               codeBlocks[b].startOffset = chunk.startOffset]

IsCode(chunk) == chunk.metadata.chunkType = "code"

\* the code chunk came out of splitCodeBlock
WasSplit(chunk) == Len(BlockOf(chunk).code) > chunkSize * 2

\* code.split('\n'): what stands between one newline (or the start) and the
\* next (or the end)
LinesOf(code) ==
  LET cuts == << 0 >> \o SelectSeq([p \in 1..Len(code) |-> p], LAMBDA p : code[p] = NL)
                     \o << Len(code) + 1 >>
  IN [k \in 1..(Len(cuts) - 1) |-> SubSeq(code, cuts[k] + 1, cuts[k + 1] - 1)]

\* C12: when splitCodeBlock splits a body whose lines are all shorter than
\* chunkSize, every sub-chunk it returns is at most chunkSize characters long.
C12_SubChunksWithinChunkSize ==
  \A i \in 1..Len(chunks) :
    (/\ IsCode(chunks[i])
     /\ WasSplit(chunks[i])
     /\ \A k \in 1..Len(LinesOf(BlockOf(chunks[i]).code)) :
          Len(LinesOf(BlockOf(chunks[i]).code)[k]) < chunkSize)
      => Len(SubChunk(chunks[i])) <= chunkSize

\* chunks i and i + 1 are consecutive sub-chunks of one call of splitCodeBlock
ConsecutiveSubChunks(i) ==
  /\ i + 1 <= Len(chunks)
  /\ IsCode(chunks[i]) /\ IsCode(chunks[i + 1])
  /\ chunks[i].startOffset = chunks[i + 1].startOffset
  /\ WasSplit(chunks[i])

\* the lines are lines of the body that follow one another in it
WholeLinesOf(lines, body) ==
  \E from \in 1..Len(body) :
    /\ from + Len(lines) - 1 <= Len(body)
    /\ SubSeq(body, from, from + Len(lines) - 1) = lines

\* C13: of two consecutive sub-chunks of splitCodeBlock the later one starts
\* with the last min(3, number of lines) lines of the earlier one, and every
\* sub-chunk is made of whole lines of the body.
C13_ThreeLineOverlap ==
  /\ \A i \in 1..Len(chunks) :
       ConsecutiveSubChunks(i) =>
         LET earlier == LinesOf(SubChunk(chunks[i]))
             later == LinesOf(SubChunk(chunks[i + 1]))
             n == MinOf({3, Len(earlier)})
         IN /\ Len(later) >= n
            /\ SubSeq(later, 1, n) = LastN(earlier, n)
  /\ \A i \in 1..Len(chunks) :
       (IsCode(chunks[i]) /\ WasSplit(chunks[i]))
         => WholeLinesOf(LinesOf(SubChunk(chunks[i])), LinesOf(BlockOf(chunks[i]).code))

\* C13 witness: a sub-chunk of four different lines is followed by one that
\* starts with its last three
C13_Witness ==
  \E i \in 1..Len(chunks) :
    /\ ConsecutiveSubChunks(i)
    /\ Len(LinesOf(SubChunk(chunks[i]))) > 3
    /\ LinesOf(SubChunk(chunks[i]))[1] # LinesOf(SubChunk(chunks[i]))[2]
    /\ SubSeq(LinesOf(SubChunk(chunks[i + 1])), 1, 3)
         = LastN(LinesOf(SubChunk(chunks[i])), 3)

\* the sub-chunks the code chunks of this block were built from, in output order
SubChunksOf(block) ==
  LET own == SelectSeq(chunks, LAMBDA c : IsCode(c) /\ c.startOffset = block.startOffset)
  IN [k \in 1..Len(own) |-> SubChunk(own[k])]

\* C14: a fence whose trimmed body is at most 2 * chunkSize long gives exactly
\* one code chunk, holding the whole body; only a fence whose body is longer
\* than 2 * chunkSize is given to splitCodeBlock.
C14_WholeUpToTwiceChunkSize ==
  \A b \in 1..(blockIdx - 1) :
    IF Len(codeBlocks[b].code) <= 2 * chunkSize
    THEN SubChunksOf(codeBlocks[b]) = << codeBlocks[b].code >>
    ELSE SubChunksOf(codeBlocks[b]) = splitCodeBlock(codeBlocks[b].code)

\* C14 witness: a two-line body of exactly 2 * chunkSize characters was kept
\* whole
C14_Witness ==
  \E b \in 1..(blockIdx - 1) :
    /\ Len(codeBlocks[b].code) = 2 * chunkSize
    /\ Len(LinesOf(codeBlocks[b].code)) = 2
    /\ SubChunksOf(codeBlocks[b]) = << codeBlocks[b].code >>

\* C15: a call of chunkDocument returns the chunk sequence that every earlier
\* call on the same chunker with the same documentId and content returned,
\* whatever was called in between.
C15_SameCallSameChunks ==
  pc = "done" =>
    \A k \in 1..Len(returned) :
      (returned[k].documentId = documentId /\ returned[k].content = content)
        => returned[k].chunks = chunks

\* C15 witness: the third call repeats the first after a different second one
\* and returns text and code chunks
C15_Witness ==
  /\ pc = "done"
  /\ Len(returned) = 2
  /\ returned[1].documentId = documentId /\ returned[1].content = content
  /\ returned[2].content # content
  /\ \E i, j \in 1..Len(chunks) : IsCode(chunks[i]) /\ ~IsCode(chunks[j])

\* no closing marker follows any opening marker: no marker follows the first
\* marker of s
NoClosingMarker(s) ==
  \/ IndexOf(s, Fence, 0) = -1
  \/ IndexOf(s, Fence, IndexOf(s, Fence, 0) + 3) = -1

\* hardSplit is about to push one window more than a loop whose start advances
\* can push: it pushes for ever, until `chunks` cannot grow any more
OutOfMemory ==
  /\ InSplit("hardSplit", "while")
  /\ Top.start < Len(Top.text)
  /\ Len(Top.chunks) >= Len(Top.text)

\* C16: chunkDocument raises no error on any content; the empty string gives
\* no chunk, and when no closing marker follows an opening marker there is no
\* code segment and every chunk has chunkType "text".
C16_NoErrorOnAnyContent ==
  /\ ~OutOfMemory
  /\ (pc = "done" /\ content = << >>) => chunks = << >>
  /\ (pc # "start" /\ NoClosingMarker(content))
       => /\ codeBlocks = << >>
          /\ \A i \in 1..Len(chunks) : ~IsCode(chunks[i])

BlankLine == << NL, NL >>

\* the text is two paragraphs joined by one blank line: each has a character
\* that is not whitespace, and the text has no other blank line
TwoParagraphs(t) ==
  /\ IndexOf(t, BlankLine, 0) # -1
  /\ LastIndexOf(t, BlankLine, Len(t)) = IndexOf(t, BlankLine, 0)
  /\ Trim(Slice(t, 0, IndexOf(t, BlankLine, 0))) # << >>
  /\ Trim(SliceFrom(t, IndexOf(t, BlankLine, 0) + 2)) # << >>

FirstParagraph(t) == Slice(t, 0, IndexOf(t, BlankLine, 0))
SecondParagraph(t) == SliceFrom(t, IndexOf(t, BlankLine, 0) + 2)

\* no header separator and no fence-opening separator occurs in t
NoHeaderOrFence(t) == \A k \in 1..4 : IndexOf(t, Separators[k], 0) = -1

C18_StartIncreases ==
  [][HSAdvance => stack'[Len(stack')].start > Top.start]_vars

\* 0-based positions of the spaces of text from position from on
SpacesFrom(text, from) == {p \in from..(Len(text) - 1) : text[p + 1] = SP}

\* the overlap as stated: after the first space at or after the position
\* chunkOverlap characters before the end
OverlapAfterSpaceAtOrAfter(text) ==
  IF Len(text) <= chunkOverlap THEN text
  ELSE IF SpacesFrom(text, Len(text) - chunkOverlap) # {}
       THEN SliceFrom(text, MinOf(SpacesFrom(text, Len(text) - chunkOverlap)) + 1)
       ELSE SliceFrom(text, Len(text) - chunkOverlap)

\* the overlap when a space at the position itself is not taken as a boundary
OverlapAfterSpaceAfter(text) ==
  IF Len(text) <= chunkOverlap THEN text
  ELSE IF /\ SpacesFrom(text, Len(text) - chunkOverlap) # {}
          /\ text[Len(text) - chunkOverlap + 1] # SP
       THEN SliceFrom(text, MinOf(SpacesFrom(text, Len(text) - chunkOverlap)) + 1)
       ELSE SliceFrom(text, Len(text) - chunkOverlap)

\* C19 as stated: getOverlap(text) is the whole text when it is at most
\* chunkOverlap long; otherwise the suffix after the first space at or after
\* position Len(text) - chunkOverlap, or the last chunkOverlap characters when
\* there is no such space; it is a suffix of text of at most chunkOverlap
\* characters.
C19_OverlapAfterFirstSpace ==
  [][RSFlush =>
       LET overlap == stack'[Len(stack')].overlap
       IN /\ overlap = OverlapAfterSpaceAtOrAfter(Top.currentChunk)
          /\ IsSuffix(overlap, Top.currentChunk)
          /\ Len(overlap) <= chunkOverlap]_vars

\* C19, amended: getOverlap(text) is the whole text when it is at most
\* chunkOverlap long; otherwise the suffix after the first space at or after
\* position Len(text) - chunkOverlap when that space lies after the position,
\* and the last chunkOverlap characters when there is no such space or the
\* character at the position is a space; it is a suffix of text of at most
\* chunkOverlap characters.
C19_OverlapAfterLaterSpace ==
  [][RSFlush =>
       LET overlap == stack'[Len(stack')].overlap
       IN /\ overlap = OverlapAfterSpaceAfter(Top.currentChunk)
          /\ IsSuffix(overlap, Top.currentChunk)
          /\ Len(overlap) <= chunkOverlap]_vars

\* C19 witness: the buffer "ab cd" was flushed with chunkOverlap 4 and the
\* overlap is "cd", what follows the space after position 1
C19_Witness ==
  /\ InSplit("recursiveSplit", "loop")
  /\ chunkOverlap = 4
  /\ Top.chunks = << << "a", "b", SP, "c", "d" >> >>
  /\ Top.overlap = << "c", "d" >>

\* C20 as stated: extractCodeBlocks returns no text segment of length zero,
\* and for a document without a fence it returns one text segment, the whole
\* document, and no code segment.
C20_OneSegmentWithoutFence ==
  Extracted =>
    /\ \A k \in 1..Len(textParts) : Len(textParts[k].text) > 0
    /\ NoClosingMarker(content)
         => /\ codeBlocks = << >>
            /\ textParts = << [text |-> content, startOffset |-> 0] >>

\* C20, amended: extractCodeBlocks returns no text segment of length zero;
\* for a document without a fence it returns no code segment and, unless the
\* document is empty, one text segment, the whole document; for the empty
\* document it returns no segment.
C20_OneSegmentUnlessEmpty ==
  Extracted =>
    /\ \A k \in 1..Len(textParts) : Len(textParts[k].text) > 0
    /\ NoClosingMarker(content)
         => /\ codeBlocks = << >>
            /\ textParts = IF content = << >> THEN << >>
                           ELSE << [text |-> content, startOffset |-> 0] >>

\* C20 witness: two fences next to each other fill the document and there is
\* no text segment
C20_Witness ==
  /\ Extracted
  /\ Len(codeBlocks) = 2
  /\ codeBlocks[1].startOffset = 0
  /\ codeBlocks[1].endOffset = codeBlocks[2].startOffset
  /\ codeBlocks[2].endOffset = Len(content)
  /\ textParts = << >>

\* the last completed call on the git source
LastCall == calls[Len(calls)]

\* C21: between calls localSource is non-null exactly when connected is true;
\* so fetchDocuments and fetchDocument throw 'Git source not connected', and
\* getDocumentCount returns 0, exactly when the source is not connected.
C21_LocalSourceIffConnected ==
  gitPc = "idle" =>
    /\ localSource # "null" <=> connected
    /\ (calls # << >> /\ LastCall.op \in {"fetchDocuments", "fetchDocument"})
         => (LastCall.result = "Git source not connected" <=> ~connected)
    /\ (calls # << >> /\ LastCall.op = "getDocumentCount")
         => (LastCall.result = "0" <=> ~connected)

\* range is a whole fence with this tag: the opening marker, the tag, a
\* newline, a body and the first marker after the newline, which closes it
IsFenceWithTag(range, tag) ==
  /\ Len(range) >= Len(tag) + 7
  /\ IsPrefix(Fence \o tag \o << NL >>, range)
  /\ IndexOf(range, Fence, Len(tag) + 4) = Len(range) - 3

\* C22: every code chunk carries as [startOffset, endOffset) the range of its
\* whole fence in the document, so the sub-chunks of one split fence share
\* both offsets, and its codeLanguage is the tag of the fence, or "text" when
\* the fence has no tag.
C22_CodeChunkIsItsFence ==
  /\ \A i \in 1..Len(chunks) :
       IsCode(chunks[i]) =>
         LET range == Slice(content, chunks[i].startOffset, chunks[i].endOffset)
             language == chunks[i].metadata.codeLanguage
         IN /\ 0 <= chunks[i].startOffset
            /\ chunks[i].endOffset <= Len(content)
            /\ \/ language # << >> /\ IsFenceWithTag(range, language)
               \/ language = TextLanguage /\ IsFenceWithTag(range, << >>)
  /\ \A i, j \in 1..Len(chunks) :
       (IsCode(chunks[i]) /\ IsCode(chunks[j]) /\ segment[i] = segment[j])
         => /\ chunks[i].startOffset = chunks[j].startOffset
            /\ chunks[i].endOffset = chunks[j].endOffset

\* C22 witness: a fence without a tag was split, and two of its sub-chunks
\* carry the range of the fence and the language "text"
C22_Witness ==
  \E i, j \in 1..Len(chunks) :
    /\ i # j
    /\ IsCode(chunks[i]) /\ IsCode(chunks[j])
    /\ segment[i] = segment[j]
    /\ chunks[i].content # chunks[j].content
    /\ chunks[i].metadata.codeLanguage = TextLanguage
    /\ IsFenceWithTag(Slice(content, chunks[i].startOffset, chunks[i].endOffset), << >>)
    /\ chunks[j].startOffset = chunks[i].startOffset
    /\ chunks[j].endOffset = chunks[i].endOffset

====
